---- MODULE Spec2Model ----
(***************************************************************************)
(* The deployment pipeline of auto_deploy: AutoDeployment.run              *)
(* (src/main.py) with the collaborators it drives, MCPClient               *)
(* (src/modules/mcp_protocol.py) and JenkinsClient                         *)
(* (src/modules/jenkins_ops.py).                                           *)
(*                                                                         *)
(* The stage names of main.py are written in ASCII here:                   *)
(*   "Analyze"      the name passed to start_stage at main.py:151          *)
(*   "SourceChange" the name passed to start_stage at main.py:183          *)
(*   "Build"        the name passed to start_stage at main.py:254          *)
(*   "Notify"       the name passed to start_stage at main.py:325          *)
(*                                                                         *)
(* Two AutoDeployment objects run side by side on the same outcomes of the *)
(* analyzer, the source-control backend and the build system: "main" (any  *)
(* monitoring configuration) and "twin" (constructed with                  *)
(* mcp_monitor=False), each with a notification outcome of its own.  The   *)
(* properties that compare two executions of run are stated on the pair.       *)
(***************************************************************************)
EXTENDS Naturals, Sequences, FiniteSets, TLC

VARIABLES
    runs,   \* run id -> the AutoDeployment object and the position of its run()
    now,    \* the reading of time.time(), in seconds since construction
    cli,    \* a stand-alone MCPClient driven through its public methods
    calls,  \* the number of method calls made on cli
    dispatch, \* a stand-alone NotificationManager and its call of send_notification
    ret,    \* the method last called on cli and the value it returned
    proc,   \* the command-line process of main(): its position and exit code
    render  \* a message template, the template data and the rendered message

vars == <<runs, now, cli, calls, dispatch, ret, proc, render>>

----------------------------------------------------------------------------
(* Bounds of the model *)

MaxTick == 1          \* seconds the SourceChange stage may take
MaxLogExtra == 1      \* characters a build log may have beyond the reported tail
MaxChannels == 3      \* longest channel list handed to send_notification
MaxTemplate == 3      \* longest message template, in tokens
MaxCalls == 4         \* method calls made on the stand-alone MCPClient

(* Constants of the program *)

timeout == 600        \* wait_for_build(timeout=600)
check_interval == 10  \* wait_for_build(check_interval=10)
max_attempts == 10    \* _get_build_number_from_queue
queue_sleep == 2      \* time.sleep(2) in _get_build_number_from_queue
log_tail == 1000      \* build_log[-1000:]

None == "None"        \* Python's None
Absent == "absent"    \* a key that is not in a dict
EmptyDict == "{}"     \* a dict with no key

falsy(v) == v \in {None, EmptyDict}

ANALYZE == "Analyze"
GIT == "SourceChange"
BUILD == "Build"
NOTIFY == "Notify"
StageNames == {ANALYZE, GIT, BUILD, NOTIFY}

Runs == {"main", "twin"}

Channels == {"slack", "email", "wecom"}

----------------------------------------------------------------------------
(* MCPClient: the state of a client is its session_id and, as a history,   *)
(* the requests it has issued.  A request is counted when it is issued:    *)
(* whether the backend answers it is the outcome `ok` of the call.         *)

SessionId == "session-1"

RemoteId(stage_name) ==
    CASE stage_name = ANALYZE -> "stage-1"
      [] stage_name = GIT -> "stage-2"
      [] stage_name = BUILD -> "stage-3"
      [] stage_name = NOTIFY -> "stage-4"
      [] OTHER -> "stage-0"

NewClient == [session_id |-> None, sent |-> <<>>]

(* The answer to a call whose return value the caller drops: either one.   *)
discarded == CHOOSE ok \in BOOLEAN : TRUE

Request(op, stage, status, end_time) ==
    [op |-> op, stage |-> stage, status |-> status, end_time |-> end_time]

Post(c, req) == [c EXCEPT !.sent = Append(@, req)]

create_session(c, ok) ==
    LET c1 == Post(c, Request("create_session", None, None, FALSE))
    IN  IF ok
        THEN [c |-> [c1 EXCEPT !.session_id = SessionId], ret |-> SessionId]
        ELSE [c |-> c1, ret |-> None]

update_status(c, status, ok) ==
    IF c.session_id = None
    THEN [c |-> c, ret |-> FALSE]
    ELSE [c |-> Post(c, Request("update_status", None, status, FALSE)), ret |-> ok]

add_stage(c, stage_name, status, ok) ==
    IF c.session_id = None
    THEN [c |-> c, ret |-> None]
    ELSE [c |-> Post(c, Request("add_stage", stage_name, status, FALSE)),
          ret |-> IF ok THEN RemoteId(stage_name) ELSE None]

update_stage(c, stage_id, status, ok) ==
    IF c.session_id = None
    THEN [c |-> c, ret |-> FALSE]
    ELSE [c |-> Post(c, Request("update_stage", stage_id, status,
                                status \in {"success", "failed"})),
          ret |-> ok]

add_log(c, level, stage_id, ok) ==
    IF c.session_id = None
    THEN [c |-> c, ret |-> FALSE]
    ELSE [c |-> Post(c, Request("add_log", stage_id, level, FALSE)), ret |-> ok]

mcp_close_session(c, status, ok) ==
    IF c.session_id = None
    THEN [c |-> c, ret |-> FALSE]
    ELSE [c |-> Post(c, Request("close_session", None, status, TRUE)), ret |-> ok]

(* notify_build_start: a client of its own, a session of its own. *)
notify_build_start(h, m) ==
    LET made == create_session(NewClient, h)
    IN  IF made.ret = None
        THEN [c |-> made.c, ret |-> FALSE]
        ELSE LET staged == add_stage(made.c, "prepare", "running", m)
                 logged == add_log(staged.c, "info", staged.ret, discarded)
                 ended == update_stage(logged.c, staged.ret, "success", discarded)
                 status == update_status(ended.c, "running", discarded)
             IN  [c |-> status.c, ret |-> TRUE]

(* Whether the monitoring backend answers the stage-create request of a    *)
(* step of run. *)
MonOutcomes == BOOLEAN

----------------------------------------------------------------------------
(* AutoDeployment: logging and stage bookkeeping *)

mcp_active(s) == s.mcp /\ s.session_id # None

Event(op, stage_name, status) == [op |-> op, name |-> stage_name, status |-> status]

log(s, level) ==
    IF mcp_active(s)
    THEN [s EXCEPT !.client = add_log(@, level, s.current_stage, discarded).c]
    ELSE s

RECURSIVE logs(_, _, _)
logs(s, level, n) ==
    IF n = 0 THEN s ELSE logs(log(s, level), level, n - 1)

start_stage(s, stage_name, m) ==
    LET s1 == log(s, "info")
        s2 == [s1 EXCEPT !.events = Append(@, Event("begin", stage_name, "running"))]
    IN  IF mcp_active(s2)
        THEN LET added == add_stage(s2.client, stage_name, "running", m)
             IN  [s2 EXCEPT !.client = added.c,
                            !.stages[stage_name] = added.ret,
                            !.current_stage = added.ret]
        ELSE [s2 EXCEPT !.stages[stage_name] = stage_name,
                        !.current_stage = stage_name]

(* Variant: after reporting the status end_stage reports the stage as      *)
(* running again. *)
end_stage_reopens(s, stage_name, status) ==
    LET s1 == log(s, "info")
        s2 == [s1 EXCEPT !.events = Append(@, Event("end", stage_name, status))]
        stage_id == s2.stages[stage_name]
    IN  IF mcp_active(s2) /\ stage_id \notin {None, Absent}
        THEN [s2 EXCEPT !.client =
                 update_stage(update_stage(@, stage_id, status, discarded).c,
                              stage_id, "running", discarded).c]
        ELSE s2

(* Variant: end_stage gives up, before its log line, on a stage the        *)
(* backend gave no id for. *)
end_stage_needs_id(s, stage_name, status) ==
    IF mcp_active(s) /\ s.stages[stage_name] = None
    THEN s
    ELSE LET s1 == log(s, "info")
             s2 == [s1 EXCEPT !.events = Append(@, Event("end", stage_name, status))]
         IN  [s2 EXCEPT !.client = IF mcp_active(s2)
                                   THEN update_stage(@, s2.stages[stage_name], status, discarded).c
                                   ELSE @]

end_stage(s, stage_name, status) ==
    LET s1 == log(s, "info")
        s2 == [s1 EXCEPT !.events = Append(@, Event("end", stage_name, status))]
        stage_id == s2.stages[stage_name]
    IN  IF mcp_active(s2) /\ stage_id \notin {None, Absent}
        THEN [s2 EXCEPT !.client = update_stage(@, stage_id, status, discarded).c]
        ELSE s2

(* Variant: the session is always closed as a success. *)
close_session_as_success(s, status) ==
    IF mcp_active(s)
    THEN LET s1 == log(s, "info")
         IN  [s1 EXCEPT !.client = mcp_close_session(@, "success", discarded).c]
    ELSE s

close_session(s, status) ==
    IF mcp_active(s)
    THEN LET s1 == log(s, "info")
         IN  [s1 EXCEPT !.client = mcp_close_session(@, status, discarded).c]
    ELSE s

Result(success, stage, error) == [success |-> success, stage |-> stage, error |-> error]

NoResult == Result(FALSE, None, None)

return(s, result) == [s EXCEPT !.pc = "done", !.result = result]

----------------------------------------------------------------------------
(* The Analyze stage *)

Plans == [file_changes : BOOLEAN, jenkins_params : {"absent", "plain", "branch"}]

NoPlan == [file_changes |-> FALSE, jenkins_params |-> "absent"]

(* What analyze_requirements gives the stage: a change plan; an empty      *)
(* dict; a dict with an "error" key; or a value on which the stage's own   *)
(* code raises (a JSON value that is no dict).                             *)
AnalysisOutcomes ==
    {[kind |-> "plan", plan |-> p] : p \in Plans}
    \cup {[kind |-> k, plan |-> NoPlan] : k \in {"empty", "error", "raise"}}

(* Variant: the stage does not look for the "error" key. *)
analyze_requirements_stage_lenient(s, out, m) ==
    LET s1 == [log(start_stage(s, ANALYZE, m), "info") EXCEPT !.analysis = out.kind]
    IN  IF out.kind = "raise"
        THEN [s |-> end_stage(log(s1, "error"), ANALYZE, "failed"), ret |-> None]
        ELSE [s |-> end_stage(log(s1, "info"), ANALYZE, "success"), ret |-> "plan"]

analyze_requirements_stage(s, out, m) ==
    LET s1 == [log(start_stage(s, ANALYZE, m), "info") EXCEPT !.analysis = out.kind]
    IN  CASE out.kind = "error" ->
               [s |-> end_stage(log(s1, "error"), ANALYZE, "failed"),
                ret |-> None]
          [] out.kind = "raise" ->
               [s |-> end_stage(log(s1, "error"), ANALYZE, "failed"),
                ret |-> None]
          [] out.kind = "empty" ->
               [s |-> end_stage(log(s1, "info"), ANALYZE, "success"),
                ret |-> EmptyDict]
          [] OTHER ->
               [s |-> end_stage(log(s1, "info"), ANALYZE, "success"),
                ret |-> "plan"]

(* run, main.py:412-416 *)
run_analyze(s, out, m) ==
    LET staged == analyze_requirements_stage(s, out, m)
    IN  IF staged.s.escaped
        THEN [staged.s EXCEPT !.pc = "except"]
        ELSE IF falsy(staged.ret)
        THEN return(close_session(staged.s, "failed"),
                    Result(FALSE, ANALYZE, "analysis failed"))
        ELSE [staged.s EXCEPT !.pc = "git", !.plan = out.plan,
                              !.analyzed_plan = out.plan]

----------------------------------------------------------------------------
(* The SourceChange stage *)

(* The sub-steps git_operations_stage attempts, in order. *)
git_steps(plan) ==
    <<"clone", "create_branch">>
    \o (IF plan.file_changes THEN <<"apply_file_changes">> ELSE <<>>)
    \o <<"commit", "push">>

Range(seq) == {seq[i] : i \in 1..Len(seq)}

(* What the source-control backend does: every sub-step succeeds, or the   *)
(* sub-step `fail` returns False or (raises) raises.                       *)
GitOutcomes == [fail : {"none", "clone", "create_branch", "apply_file_changes",
                        "commit", "push"},
                raises : BOOLEAN]

Branch(src, t) == [src |-> src, t |-> t]

NoBranch == Branch("none", 0)

(* The index of the first sub-step that fails; 0 when none does. *)
first_failure(steps, g) ==
    IF g.fail \in Range(steps)
    THEN CHOOSE i \in 1..Len(steps) : steps[i] = g.fail
    ELSE 0

(* Variant: a sub-step that fails is reported and the remaining sub-steps  *)
(* are attempted all the same. *)
git_operations_stage_persistent(s, plan, g, m) ==
    LET steps == git_steps(plan)
        k == first_failure(steps, g)
        s1 == [start_stage(s, GIT, m) EXCEPT !.feature_branch = Branch("clock", now)]
        s2 == logs(s1, "info", 2)
    IN  IF k = 0
        THEN LET s3 == logs(s2, "info", Len(steps) + 1)
             IN  [s |-> end_stage([s3 EXCEPT !.git_done = steps,
                                             !.git_failed = "none",
                                             !.pushed = s1.feature_branch],
                                  GIT, "success"),
                  ret |-> TRUE]
        ELSE LET s3 == log(logs(s2, "info", Len(steps)), "error")
             IN  [s |-> end_stage([s3 EXCEPT !.git_done = steps,
                                             !.git_failed = steps[k],
                                             !.git_raised = g.raises],
                                  GIT, "failed"),
                  ret |-> FALSE]

git_operations_stage(s, plan, g, m) ==
    LET steps == git_steps(plan)
        k == first_failure(steps, g)
        s1 == [start_stage(s, GIT, m) EXCEPT !.feature_branch = Branch("clock", now)]
        s2 == logs(s1, "info", 2)
    IN  IF k = 0
        THEN LET s3 == logs(s2, "info", Len(steps) + 1)
             IN  [s |-> end_stage([s3 EXCEPT !.git_done = steps,
                                             !.git_failed = "none",
                                             !.pushed = s1.feature_branch],
                                  GIT, "success"),
                  ret |-> TRUE]
        ELSE LET s3 == log(logs(s2, "info", k), "error")
             IN  [s |-> end_stage([s3 EXCEPT !.git_done = SubSeq(steps, 1, k),
                                             !.git_failed = steps[k],
                                             !.git_raised = g.raises],
                                  GIT, "failed"),
                  ret |-> FALSE]

(* Variant: without a build job run returns at once, Notify left out. *)
run_git_skips_notify(s, g, m) ==
    LET staged == git_operations_stage(s, s.plan, g, m)
    IN  IF ~staged.ret
        THEN return(close_session(staged.s, "failed"),
                    Result(FALSE, GIT, "git failed"))
        ELSE IF s.jenkins
        THEN [staged.s EXCEPT !.pc = "build"]
        ELSE return(close_session(staged.s, "success"), Result(TRUE, None, None))

(* Variant: run goes on to the next stage whatever SourceChange returned. *)
run_git_proceeds(s, g, m) ==
    LET staged == git_operations_stage(s, s.plan, g, m)
    IN  [staged.s EXCEPT !.pc = IF s.jenkins THEN "build" ELSE "notify"]

(* run, main.py:418-425 *)
run_git(s, g, m) ==
    LET staged == git_operations_stage(s, s.plan, g, m)
    IN  IF staged.s.escaped
        THEN [staged.s EXCEPT !.pc = "except"]
        ELSE IF ~staged.ret
        THEN return(close_session(staged.s, "failed"),
                    Result(FALSE, GIT, "git failed"))
        ELSE [staged.s EXCEPT !.pc = IF s.jenkins THEN "build" ELSE "notify"]

----------------------------------------------------------------------------
(* JenkinsClient *)

NoBuild == 0          \* build_job's None: `if not build_number` takes it as 0

(* The build numbers a queue item resolves to: Jenkins counts from 1. *)
BuildNumbers == {42}

TriggerOutcomes == {"queued", "rejected", "no_location", "raise"}

QueueResponses ==
    {[kind |-> k, number |-> NoBuild] :
        k \in {"pending", "cancelled", "http_error", "raise"}}
    \cup {[kind |-> "executable", number |-> n] : n \in BuildNumbers}

(* Variant: a cancelled item is waited for like a pending one. *)
queue_poll_ignores_cancel(attempts, q) ==
    CASE q.kind = "executable" ->
           [done |-> TRUE, ret |-> q.number, attempts |-> attempts]
      [] q.kind \in {"pending", "cancelled"} ->
           [done |-> ~(attempts + 1 < max_attempts), ret |-> NoBuild,
            attempts |-> attempts + 1]
      [] OTHER ->
           [done |-> TRUE, ret |-> NoBuild, attempts |-> attempts]

(* Variant: the loop test is attempts <= max_attempts. *)
queue_poll_one_more(attempts, q) ==
    CASE q.kind = "executable" ->
           [done |-> TRUE, ret |-> q.number, attempts |-> attempts]
      [] q.kind = "pending" ->
           [done |-> ~(attempts + 1 <= max_attempts), ret |-> NoBuild,
            attempts |-> attempts + 1]
      [] OTHER ->
           [done |-> TRUE, ret |-> NoBuild, attempts |-> attempts]

(* One iteration of the loop of _get_build_number_from_queue, with the     *)
(* loop test that follows it. *)
queue_poll(attempts, q) ==
    CASE q.kind = "executable" ->
           [done |-> TRUE, ret |-> q.number, attempts |-> attempts]
      [] q.kind = "pending" ->
           [done |-> ~(attempts + 1 < max_attempts), ret |-> NoBuild,
            attempts |-> attempts + 1]
      [] OTHER ->
           [done |-> TRUE, ret |-> NoBuild, attempts |-> attempts]

BuildResults == {"SUCCESS", "FAILURE", "ABORTED", "UNSTABLE"}

(* What get_build_info gives: nothing (the lookup failed), or the build's  *)
(* building flag and result field. *)
BuildInfos ==
    {[found |-> FALSE, building |-> FALSE, result |-> None],
     [found |-> TRUE, building |-> TRUE, result |-> None]}
    \cup {[found |-> TRUE, building |-> FALSE, result |-> r] :
            r \in BuildResults \cup {None}}

(* No build info has been asked for yet. *)
NoInfo == [found |-> FALSE, building |-> FALSE, result |-> "unpolled"]

get_build_status(info) ==
    IF ~info.found THEN None
    ELSE IF info.building THEN "IN_PROGRESS"
    ELSE info.result

(* Variant: wait_for_build gives up after the first poll that finds the    *)
(* build unfinished. *)
wait_poll_impatient(waited, info) ==
    LET status == get_build_status(info)
    IN  IF status # None /\ status # "IN_PROGRESS"
        THEN [done |-> TRUE, ret |-> status, waited |-> waited]
        ELSE [done |-> TRUE, ret |-> None, waited |-> waited + check_interval]

(* Variant: an UNSTABLE build is reported as FAILURE. *)
wait_poll_normalises(waited, info) ==
    LET status == get_build_status(info)
    IN  IF status # None /\ status # "IN_PROGRESS"
        THEN [done |-> TRUE, ret |-> IF status = "UNSTABLE" THEN "FAILURE" ELSE status,
              waited |-> waited]
        ELSE [done |-> ~(waited + check_interval < timeout), ret |-> None,
              waited |-> waited + check_interval]

(* Variant: when the time is up the loop starts its count again. *)
wait_poll_restarts(waited, info) ==
    LET status == get_build_status(info)
    IN  IF status # None /\ status # "IN_PROGRESS"
        THEN [done |-> TRUE, ret |-> status, waited |-> waited]
        ELSE [done |-> FALSE, ret |-> None,
              waited |-> IF waited + check_interval < timeout
                         THEN waited + check_interval ELSE 0]

(* Variant: a lookup that fails, or a build without a result, ends the     *)
(* wait with that empty status. *)
wait_poll_reports_empty(waited, info) ==
    LET status == get_build_status(info)
    IN  IF status # "IN_PROGRESS"
        THEN [done |-> TRUE, ret |-> status, waited |-> waited]
        ELSE [done |-> ~(waited + check_interval < timeout), ret |-> None,
              waited |-> waited + check_interval]

(* One iteration of the loop of wait_for_build, with the loop test that    *)
(* follows it.  waited is time.time() - start_time; the sleep is what      *)
(* advances it. *)
wait_poll(waited, info) ==
    LET status == get_build_status(info)
    IN  IF status # None /\ status # "IN_PROGRESS"
        THEN [done |-> TRUE, ret |-> status, waited |-> waited]
        ELSE [done |-> ~(waited + check_interval < timeout), ret |-> None,
              waited |-> waited + check_interval]

LogLengths == {0, 1, log_tail, log_tail + MaxLogExtra}

NoLog == [available |-> FALSE, len |-> 0]

BuildLogs == {NoLog} \cup {[available |-> TRUE, len |-> n] : n \in LogLengths}

(* get_build_log is called for a build that ended other than in SUCCESS. *)
LogsOf(info) ==
    IF get_build_status(info) \in {None, "IN_PROGRESS", "SUCCESS"}
    THEN {NoLog}
    ELSE BuildLogs

(* Variant: text[:n], the head of the text. *)
tail_head(len, n) ==
    [shown |-> TRUE, from |-> 0, to |-> IF len > n THEN n ELSE len]

(* text[-n:] of a text of len characters, as the positions it keeps. *)
tail(len, n) ==
    [shown |-> TRUE, from |-> IF len > n THEN len - n ELSE 0, to |-> len]

NoExcerpt == [shown |-> FALSE, from |-> 0, to |-> 0]

----------------------------------------------------------------------------
(* The Build stage *)

(* Variant: the abort at Build returns without closing the session. *)
run_build_failed_unclosed(s) ==
    return(s, Result(FALSE, BUILD, "build failed"))

(* run, main.py:427-429 *)
run_build_failed(s) ==
    return(close_session(s, "failed"), Result(FALSE, BUILD, "build failed"))

(* jenkins_build_stage, main.py:275-278 *)
trigger_failed(s) ==
    run_build_failed(end_stage(log(s, "error"), BUILD, "failed"))

(* Variant: a response without a Location header is followed by queue     *)
(* polls all the same. *)
jenkins_build_stage_polls_anyway(s, h, t, m) ==
    LET s1 == start_stage(s, BUILD, m)
        params == s1.plan.jenkins_params
        s2 == [s1 EXCEPT
                 !.plan.jenkins_params = IF params = "plain" THEN "plain+BRANCH" ELSE params,
                 !.build_branch = IF params = "branch"
                                  THEN Branch("plan", 0)
                                  ELSE Branch("clock", now)]
        s3 == [logs(s2, "info", 2) EXCEPT !.helper = notify_build_start(h, m).c,
                                          !.trigger = t]
    IN  IF ~s.jenkins
        THEN [log(s, "warning") EXCEPT !.pc = "notify"]
        ELSE IF t \in {"queued", "no_location"}
        THEN [s3 EXCEPT !.pc = "queue", !.attempts = 0]
        ELSE trigger_failed(s3)

(* jenkins_build_stage up to the trigger request of build_job, and what    *)
(* the stage and run do when the trigger fails *)
jenkins_build_stage(s, h, t, m) ==
    LET s1 == start_stage(s, BUILD, m)
        params == s1.plan.jenkins_params
        s2 == [s1 EXCEPT
                 !.plan.jenkins_params = IF params = "plain" THEN "plain+BRANCH" ELSE params,
                 !.build_branch = IF params = "branch"
                                  THEN Branch("plan", 0)
                                  ELSE Branch("clock", now)]
        s3 == [logs(s2, "info", 2) EXCEPT !.helper = notify_build_start(h, m).c,
                                          !.trigger = t]
    IN  IF ~s.jenkins
        THEN [log(s, "warning") EXCEPT !.pc = "notify"]
        ELSE IF t = "queued"
        THEN [s3 EXCEPT !.pc = "queue", !.attempts = 0]
        ELSE trigger_failed(s3)

(* build_job's queue resolution, one poll at a time *)
resolve_queue(s, q) ==
    LET polled == queue_poll(s.attempts, q)
        s1 == [s EXCEPT !.attempts = polled.attempts, !.queue_result = q.kind]
    IN  IF ~polled.done
        THEN s1
        ELSE IF polled.ret = NoBuild
        THEN trigger_failed(s1)
        ELSE [log(s1, "info") EXCEPT !.attempts = 0, !.build_number = polled.ret,
                                        !.pc = "wait", !.waited = 0]

(* Variant: the status is compared with "success" in lower case, which    *)
(* no build reports. *)
build_finished_lowercase(s, build_status, build_log) ==
    LET s0 == [s EXCEPT !.build_status = build_status, !.waited = 0]
    IN  IF build_status = None
        THEN [end_stage(log(s0, "warning"), BUILD, "warning") EXCEPT !.pc = "notify"]
        ELSE return(close_session(end_stage(log(s0, "error"), BUILD, "failed"), "failed"),
                    Result(FALSE, BUILD, "build failed"))

(* jenkins_build_stage, main.py:286-307, and what run does with its result *)
build_finished(s, build_status, build_log) ==
    LET s0 == [s EXCEPT !.build_status = build_status, !.waited = 0]
    IN  CASE build_status = None ->
               [end_stage(log(s0, "warning"), BUILD, "warning")
                  EXCEPT !.pc = "notify"]
          [] build_status = "SUCCESS" ->
               [end_stage(log(s0, "info"), BUILD, "success")
                  EXCEPT !.pc = "notify"]
          [] OTHER ->
               LET s1 == log(s0, "error")
                   s2 == IF build_log.available /\ build_log.len > 0
                         THEN [log(s1, "error") EXCEPT
                                 !.build_log = build_log,
                                 !.reported_log = tail(build_log.len, log_tail)]
                         ELSE [s1 EXCEPT !.build_log = build_log]
               IN  run_build_failed(end_stage(s2, BUILD, "failed"))

(* wait_for_build, one poll at a time *)
await_build(s, info, build_log) ==
    LET polled == wait_poll(s.waited, info)
        s1 == [s EXCEPT !.build_info = info]
    IN  IF ~polled.done
        THEN [s1 EXCEPT !.waited = polled.waited]
        ELSE build_finished(s1, polled.ret, build_log)

----------------------------------------------------------------------------
(* The Notify stage *)

(* The outcome map of a dispatch that attempted no channel: no channel is  *)
(* configured. *)
NoneAttempted == [kind |-> "results", results |-> [c \in {} |-> FALSE]]

NotifyOutcomes ==
    {[kind |-> "results", results |-> r] : r \in [Channels -> BOOLEAN]}
    \cup {NoneAttempted}
    \cup {[kind |-> "raise", results |-> [c \in Channels |-> FALSE]]}

NotNotified == [kind |-> "none", results |-> [c \in Channels |-> FALSE]]

AllSent == [kind |-> "results", results |-> [c \in Channels |-> TRUE]]

(* The outcome the dispatcher has in the twin run: the one of the main     *)
(* run, or every channel succeeding. *)
TwinOutcomes(n) == {n, AllSent}

(* Variant: a partial success is taken for a failure. *)
notification_stage_all_or_nothing(s, status, n, m) ==
    LET s1 == log(start_stage(s, NOTIFY, m), "info")
        success_count == Cardinality({c \in DOMAIN n.results : n.results[c]})
        total_count == Cardinality(DOMAIN n.results)
    IN  IF n.kind # "raise" /\ success_count = total_count
        THEN [s |-> end_stage(log(s1, "info"), NOTIFY, "success"),
              ret |-> TRUE]
        ELSE [s |-> end_stage(log(s1, "error"), NOTIFY, "failed"),
              ret |-> FALSE]

(* Variant: an exception of send_notification leaves the stage. *)
notification_stage_unguarded(s, status, n, m) ==
    LET s1 == log(start_stage(s, NOTIFY, m), "info")
        success_count == Cardinality({c \in DOMAIN n.results : n.results[c]})
        total_count == Cardinality(DOMAIN n.results)
    IN  IF n.kind = "raise"
        THEN [s |-> [s1 EXCEPT !.escaped = TRUE], ret |-> FALSE]
        ELSE IF success_count = total_count
        THEN [s |-> end_stage(log(s1, "info"), NOTIFY, "success"),
              ret |-> TRUE]
        ELSE IF success_count > 0
        THEN [s |-> end_stage(log(s1, "warning"), NOTIFY, "warning"),
              ret |-> TRUE]
        ELSE [s |-> end_stage(log(s1, "error"), NOTIFY, "failed"),
              ret |-> FALSE]

(* Variant: the stage succeeds only when at least one channel was reached. *)
notification_stage_needs_one(s, status, n, m) ==
    LET s1 == log(start_stage(s, NOTIFY, m), "info")
        success_count == Cardinality({c \in DOMAIN n.results : n.results[c]})
        total_count == Cardinality(DOMAIN n.results)
    IN  IF n.kind = "raise"
        THEN [s |-> end_stage(log(s1, "error"), NOTIFY, "failed"),
              ret |-> FALSE]
        ELSE IF success_count = total_count /\ total_count > 0
        THEN [s |-> end_stage(log(s1, "info"), NOTIFY, "success"),
              ret |-> TRUE]
        ELSE IF success_count > 0
        THEN [s |-> end_stage(log(s1, "warning"), NOTIFY, "warning"),
              ret |-> TRUE]
        ELSE [s |-> end_stage(log(s1, "error"), NOTIFY, "failed"),
              ret |-> FALSE]

notification_stage(s, status, n, m) ==
    LET s1 == log(start_stage(s, NOTIFY, m), "info")
        success_count == Cardinality({c \in DOMAIN n.results : n.results[c]})
        total_count == Cardinality(DOMAIN n.results)
    IN  IF n.kind = "raise"
        THEN [s |-> end_stage(log(s1, "error"), NOTIFY, "failed"),
              ret |-> FALSE]
        ELSE IF success_count = total_count
        THEN [s |-> end_stage(log(s1, "info"), NOTIFY, "success"),
              ret |-> TRUE]
        ELSE IF success_count > 0
        THEN [s |-> end_stage(log(s1, "warning"), NOTIFY, "warning"),
              ret |-> TRUE]
        ELSE [s |-> end_stage(log(s1, "error"), NOTIFY, "failed"),
              ret |-> FALSE]

(* Variant: run returns what the Notify stage returned. *)
run_notify_gated(s, n, m) ==
    LET staged == notification_stage(s, "success", n, m)
        s1 == [staged.s EXCEPT !.notification_success = staged.ret, !.notified = n]
        s2 == log(close_session(s1, IF staged.ret THEN "success" ELSE "failed"), "info")
    IN  return(s2, Result(staged.ret, IF staged.ret THEN None ELSE NOTIFY, None))

(* Variant: a statement of run after the Notify stage raises, so that the   *)
(* handler runs after Notify has been begun and ended. *)
run_notify_then_raises(s, n, m) ==
    LET staged == notification_stage(s, "success", n, m)
        s1 == [staged.s EXCEPT !.notification_success = staged.ret, !.notified = n]
    IN  [s1 EXCEPT !.pc = "except"]

(* run, main.py:431-442 *)
run_notify(s, n, m) ==
    LET staged == notification_stage(s, "success", n, m)
        s1 == [staged.s EXCEPT !.notification_success = staged.ret, !.notified = n]
        s2 == log(close_session(s1, "success"), "info")
    IN  IF staged.s.escaped
        THEN [staged.s EXCEPT !.pc = "except", !.notified = n]
        ELSE return(s2, Result(TRUE, None, None))

(* run, main.py:405-410 *)
run_begin(s) ==
    LET s1 == log(s, "info")
        s2 == IF mcp_active(s1)
              THEN [s1 EXCEPT !.client = update_status(@, "running", discarded).c]
              ELSE s1
    IN  [s2 EXCEPT !.pc = "analyze"]

----------------------------------------------------------------------------
(* NotificationManager *)

(* The keys a configuration may have: the three channels that have a       *)
(* sender, and "sms", a name send_notification has no sender for. *)
ChannelNames == Channels \cup {"sms"}

(* The order in which a configuration's keys are listed. *)
KeyOrder == <<"slack", "email", "wecom", "sms">>

(* A configuration gives each key a dict, a value that is no dict, or      *)
(* nothing. *)
Configs ==
    {cfg \in [ChannelNames -> {"absent", "dict", "scalar"}] :
        \A c \in Channels : cfg[c] # "scalar"}

(* config.py, NOTIFICATION *)
NOTIFICATION == [c \in ChannelNames |-> IF c \in Channels THEN "dict" ELSE "absent"]

(* The channels argument: None, or a list of names. *)
NoChannels == [given |-> FALSE, list |-> <<>>]

ChannelLists ==
    {NoChannels}
    \cup {[given |-> TRUE, list |-> l] :
            l \in UNION {[1..n -> ChannelNames] : n \in 0..MaxChannels}}

(* What a sender meets: the message is accepted; the sender returns False  *)
(* itself (credentials missing, a status other than 200/201, an errcode);  *)
(* or a call inside it raises (network error, a body that is no JSON). *)
SendOutcomes == {"sent", "failed", "raise"}

(* _send_slack, _send_email, _send_wecom: True only for an accepted        *)
(* message; their own except clause turns a raise into False. *)
channel_send(channel_config, outcome) ==
    IF channel_config # "dict" THEN FALSE ELSE outcome = "sent"

NoResults == <<>>

(* Variant: the loop stops at the first channel that fails. *)
RECURSIVE send_loop_stops(_, _, _, _, _)
send_loop_stops(config, targets, sends, i, acc) ==
    IF i > Len(targets)
    THEN acc
    ELSE LET channel == targets[i]
             known == config[channel] # "absent" /\ channel \in Channels
             ok == known /\ channel_send(config[channel], sends[channel])
             acc1 == [results |-> (channel :> ok) @@ acc.results,
                      handled |-> Append(acc.handled, channel),
                      sent_to |-> IF known THEN Append(acc.sent_to, channel) ELSE acc.sent_to]
         IN  IF ok THEN send_loop_stops(config, targets, sends, i + 1, acc1) ELSE acc1

(* The loop of send_notification over the targeted channels, from the      *)
(* i-th on. *)
RECURSIVE send_loop(_, _, _, _, _)
send_loop(config, targets, sends, i, acc) ==
    IF i > Len(targets)
    THEN acc
    ELSE LET channel == targets[i]
             known == config[channel] # "absent" /\ channel \in Channels
             ok == known /\ channel_send(config[channel], sends[channel])
         IN  send_loop(config, targets, sends, i + 1,
                       [results |-> (channel :> ok) @@ acc.results,
                        handled |-> Append(acc.handled, channel),
                        sent_to |-> IF known THEN Append(acc.sent_to, channel)
                                    ELSE acc.sent_to])

(* Variant: without a channel list every key of the configuration is      *)
(* targeted, dict or not. *)
default_channels_all_keys(config) ==
    SelectSeq(KeyOrder, LAMBDA k : config[k] # "absent")

(* The channels targeted when none is given: the keys whose value is a     *)
(* dict. *)
default_channels(config) ==
    SelectSeq(KeyOrder, LAMBDA k : config[k] = "dict")

send_notification(d, channels, sends) ==
    LET targets == IF channels.list = <<>>
                   THEN default_channels(d.config)
                   ELSE channels.list
        looped == send_loop(d.config, targets, sends, 1,
                            [results |-> NoResults, handled |-> <<>>, sent_to |-> <<>>])
    IN  [d EXCEPT !.pc = "returned", !.channels = channels, !.sends = sends,
                  !.results = looped.results, !.handled = looped.handled,
                  !.sent_to = looped.sent_to]

NotificationManager(config, channels) ==
    [pc |-> "idle", config |-> config, channels |-> channels,
     sends |-> [c \in Channels |-> "sent"],
     results |-> NoResults, handled |-> <<>>, sent_to |-> <<>>]

----------------------------------------------------------------------------
(* Construction and the steps of run *)

AutoDeployment(mcp_monitor, session_ok, jenkins_job) ==
    LET made == create_session(NewClient, session_ok)
    IN  [mcp |-> mcp_monitor,
         client |-> IF mcp_monitor THEN made.c ELSE NewClient,
         session_id |-> IF mcp_monitor THEN made.ret ELSE None,
         jenkins |-> jenkins_job,
         stages |-> [n \in StageNames |-> Absent],
         current_stage |-> None,
         events |-> <<>>,
         pc |-> "start",
         result |-> NoResult,
         plan |-> NoPlan,
         analyzed_plan |-> NoPlan,
         feature_branch |-> NoBranch,
         pushed |-> NoBranch,
         build_branch |-> NoBranch,
         analysis |-> None,
         git_done |-> <<>>,
         git_failed |-> None,
         handler |-> None,
         escaped |-> FALSE,
         git_raised |-> FALSE,
         trigger |-> None,
         queue_result |-> None,
         build_log |-> NoLog,
         helper |-> NewClient,
         attempts |-> 0,
         build_number |-> NoBuild,
         waited |-> 0,
         build_status |-> None,
         build_info |-> NoInfo,
         reported_log |-> NoExcerpt,
         notification_success |-> FALSE,
         notified |-> NotNotified]

(* No method of the stand-alone client has been called yet. *)
NoCall == [op |-> "none", value |-> "none"]

(* An AutoDeployment constructed directly, without the command line. *)
NoProcess == [pc |-> "library", input |-> "none", summary |-> "none",
              exited |-> FALSE, exit_code |-> 0]

(* No template is being rendered. *)
NoRender == [pc |-> "none", template |-> <<>>, data |-> <<>>, message |-> <<>>,
             raised |-> FALSE]

Init ==
    /\ \E mcp_monitor \in BOOLEAN, session_ok \in BOOLEAN, jenkins_job \in BOOLEAN :
         runs = [r \in Runs |->
                   AutoDeployment(r = "main" /\ mcp_monitor, session_ok, jenkins_job)]
    /\ now = 0
    /\ cli = NewClient
    /\ calls = 0
    /\ dispatch = NotificationManager(NOTIFICATION, NoChannels)
    /\ ret = NoCall
    /\ proc = NoProcess
    /\ render = NoRender

At(pc) == \E r \in Runs : runs[r].pc = pc

RunStart ==
    /\ At("start")
    /\ runs' = [r \in Runs |->
                  IF runs[r].pc = "start" THEN run_begin(runs[r]) ELSE runs[r]]
    /\ UNCHANGED <<now, cli, calls, dispatch, ret, proc, render>>

Analyze ==
    /\ At("analyze")
    /\ \E out \in AnalysisOutcomes, m \in MonOutcomes :
         runs' = [r \in Runs |->
                    IF runs[r].pc = "analyze"
                    THEN run_analyze(runs[r], out, m) ELSE runs[r]]
    /\ UNCHANGED <<now, cli, calls, dispatch, ret, proc, render>>

SourceChange ==
    /\ At("git")
    /\ \E g \in GitOutcomes, m \in MonOutcomes, d \in 0..MaxTick :
         /\ runs' = [r \in Runs |->
                       IF runs[r].pc = "git" THEN run_git(runs[r], g, m) ELSE runs[r]]
         /\ now' = now + d
    /\ UNCHANGED <<cli, calls, dispatch, ret, proc, render>>

BuildTrigger ==
    /\ At("build")
    /\ \E h \in BOOLEAN, t \in TriggerOutcomes, m \in MonOutcomes :
         runs' = [r \in Runs |->
                    IF runs[r].pc = "build"
                    THEN jenkins_build_stage(runs[r], h, t, m) ELSE runs[r]]
    /\ UNCHANGED <<now, cli, calls, dispatch, ret, proc, render>>

QueuePoll ==
    /\ At("queue")
    /\ \E q \in QueueResponses :
         runs' = [r \in Runs |->
                    IF runs[r].pc = "queue"
                    THEN resolve_queue(runs[r], q) ELSE runs[r]]
    /\ UNCHANGED <<now, cli, calls, dispatch, ret, proc, render>>

BuildPoll ==
    /\ At("wait")
    /\ \E info \in BuildInfos :
       \E build_log \in LogsOf(info) :
         runs' = [r \in Runs |->
                    IF runs[r].pc = "wait"
                    THEN await_build(runs[r], info, build_log) ELSE runs[r]]
    /\ UNCHANGED <<now, cli, calls, dispatch, ret, proc, render>>

Notify ==
    /\ At("notify")
    /\ \E n \in NotifyOutcomes, m \in MonOutcomes :
       \E other \in TwinOutcomes(n) :
         runs' = [r \in Runs |->
                    IF runs[r].pc = "notify"
                    THEN run_notify(runs[r], IF r = "main" THEN n ELSE other, m)
                    ELSE runs[r]]
    /\ UNCHANGED <<now, cli, calls, dispatch, ret, proc, render>>

Next ==
    \/ RunStart
    \/ Analyze
    \/ SourceChange
    \/ BuildTrigger
    \/ QueuePoll
    \/ BuildPoll
    \/ Notify

Spec == Init /\ [][Next]_vars

----------------------------------------------------------------------------
(* An exception that reaches the handler of run.  Every collaborator       *)
(* failure is caught inside its stage; what is left is the call of         *)
(* start_stage that each stage makes before its try block (main.py:151,    *)
(* 183, 254, 325).  StageRaises is that call raising before it has         *)
(* recorded anything, and run's handler running.                           *)

StageEntries == {"analyze", "git", "build", "notify"}

(* where run's handler starts: at a stage call that raises, or after an    *)
(* exception that left a stage *)
HandlerEntries == StageEntries \cup {"except"}

(* Variant: the handler notifies first and closes the session afterwards,  *)
(* and an exception of the notification takes the place of the first one.  *)
run_except_unguarded(s, again, n, m) ==
    IF again
    THEN return([s EXCEPT !.handler = "notify_raised"],
                Result(FALSE, None, "second exception"))
    ELSE return(close_session([notification_stage(s, "failure", n, m).s EXCEPT
                                 !.notified = n, !.handler = "notified"],
                              "failed"),
                Result(FALSE, None, "exception"))

(* run, main.py:444-456.  `again` is the failure notification raising in   *)
(* its turn, which the handler swallows. *)
run_except(s, again, n, m) ==
    LET s1 == close_session(s, "failed")
        s2 == IF again
              THEN [s1 EXCEPT !.handler = "notify_raised"]
              ELSE [notification_stage(s1, "failure", n, m).s EXCEPT
                      !.notified = n, !.handler = "notified"]
    IN  return(s2, Result(FALSE, None, "exception"))

StageRaises ==
    /\ \E r \in Runs : runs[r].pc \in HandlerEntries
    /\ \E again \in BOOLEAN, n \in NotifyOutcomes, m \in MonOutcomes :
       \E other \in TwinOutcomes(n) :
         runs' = [r \in Runs |->
                    IF runs[r].pc \in HandlerEntries
                    THEN run_except(runs[r], again, IF r = "main" THEN n ELSE other, m)
                    ELSE runs[r]]
    /\ UNCHANGED <<now, cli, calls, dispatch, ret, proc, render>>

NextFault ==
    \/ RunStart
    \/ Analyze
    \/ SourceChange
    \/ BuildTrigger
    \/ QueuePoll
    \/ BuildPoll
    \/ Notify
    \/ StageRaises

SpecFault == Init /\ [][NextFault]_vars

(* run with its scheduling: one thread, every external call returns and    *)
(* every sleep ends, so a step of run that can be taken is taken.  Every   *)
(* step of Next changes the state and one is possible for as long as a run *)
(* has not returned, so weak fairness of Next says: the runs have          *)
(* returned, or the state changes again.  It is written in that form for   *)
(* the steps whose successors are costly to enumerate. *)
Running == \E r \in Runs : runs[r].pc # "done"

Scheduling ==
    /\ WF_vars(RunStart)
    /\ WF_vars(Analyze)
    /\ WF_vars(QueuePoll)
    /\ ([]<>(~Running) \/ []<><<TRUE>>_vars)

SpecLive == Init /\ [][Next]_vars /\ Scheduling

----------------------------------------------------------------------------
(* An MCPClient used on its own, as the module's __main__ block uses it:   *)
(* any method, in any order, MaxCalls times. *)

(* What a caller sees of a returned value: a boolean, or an identifier that *)
(* is either a string or None. *)
Truth(value) == IF value THEN "True" ELSE "False"

Handle(value) == IF value = None THEN "None" ELSE "id"

Returns(op, value) == [op |-> op, value |-> value]

ClientCreate ==
    /\ calls < MaxCalls
    /\ cli.session_id = None
    /\ \E ok \in BOOLEAN : LET called == create_session(cli, ok)
                           IN  /\ cli' = called.c
                               /\ ret' = Returns("create_session", Handle(called.ret))
    /\ calls' = calls + 1
    /\ UNCHANGED <<runs, now, dispatch, proc, render>>

ClientUpdateStatus ==
    /\ calls < MaxCalls
    /\ \E ok \in BOOLEAN : LET called == update_status(cli, "running", ok)
                           IN  /\ cli' = called.c
                               /\ ret' = Returns("update_status", Truth(called.ret))
    /\ calls' = calls + 1
    /\ UNCHANGED <<runs, now, dispatch, proc, render>>

ClientAddStage ==
    /\ calls < MaxCalls
    /\ \E ok \in BOOLEAN : LET called == add_stage(cli, ANALYZE, "running", ok)
                           IN  /\ cli' = called.c
                               /\ ret' = Returns("add_stage", Handle(called.ret))
    /\ calls' = calls + 1
    /\ UNCHANGED <<runs, now, dispatch, proc, render>>

ClientUpdateStage ==
    /\ calls < MaxCalls
    /\ \E status \in {"success", "warning"}, ok \in BOOLEAN :
         LET called == update_stage(cli, RemoteId(ANALYZE), status, ok)
         IN  /\ cli' = called.c
             /\ ret' = Returns("update_stage", Truth(called.ret))
    /\ calls' = calls + 1
    /\ UNCHANGED <<runs, now, dispatch, proc, render>>

ClientAddLog ==
    /\ calls < MaxCalls
    /\ \E ok \in BOOLEAN : LET called == add_log(cli, "info", None, ok)
                           IN  /\ cli' = called.c
                               /\ ret' = Returns("add_log", Truth(called.ret))
    /\ calls' = calls + 1
    /\ UNCHANGED <<runs, now, dispatch, proc, render>>

ClientClose ==
    /\ calls < MaxCalls
    /\ \E status \in {"success", "failed"}, ok \in BOOLEAN :
         LET called == mcp_close_session(cli, status, ok)
         IN  /\ cli' = called.c
             /\ ret' = Returns("close_session", Truth(called.ret))
    /\ calls' = calls + 1
    /\ UNCHANGED <<runs, now, dispatch, proc, render>>

NextClient ==
    \/ ClientCreate
    \/ ClientUpdateStatus
    \/ ClientAddStage
    \/ ClientUpdateStage
    \/ ClientAddLog
    \/ ClientClose

SpecClient == Init /\ [][NextClient]_vars

----------------------------------------------------------------------------
(* A NotificationManager used on its own, as the module's __main__ block   *)
(* uses it: one call of send_notification on some configuration. *)

InitDispatch ==
    /\ runs = [r \in Runs |-> AutoDeployment(FALSE, FALSE, FALSE)]
    /\ now = 0
    /\ cli = NewClient
    /\ calls = 0
    /\ \E config \in Configs : dispatch = NotificationManager(config, NoChannels)
    /\ ret = NoCall
    /\ proc = NoProcess
    /\ render = NoRender

Dispatch ==
    /\ dispatch.pc = "idle"
    /\ \E channels \in ChannelLists, sends \in [Channels -> SendOutcomes] :
         dispatch' = send_notification(dispatch, channels, sends)
    /\ UNCHANGED <<runs, now, cli, calls, ret, proc, render>>

NextDispatch == Dispatch

SpecDispatch == InitDispatch /\ [][NextDispatch]_vars

----------------------------------------------------------------------------
(* The command line, main(): parse the arguments, read the requirement     *)
(* document, construct an AutoDeployment, call run, print one line and     *)
(* exit. *)

(* How the arguments and the document turn out: required arguments         *)
(* missing (argparse exits), --doc names a readable or an unreadable file, *)
(* or the text is read from standard input, to its end or until the user   *)
(* interrupts. *)
Inputs == {"bad_args", "doc", "unreadable_doc", "stdin", "cancelled_stdin"}

(* No AutoDeployment has been constructed yet. *)
Unconstructed == [AutoDeployment(FALSE, FALSE, FALSE) EXCEPT !.pc = "unconstructed"]

exit(p, code, summary) ==
    [p EXCEPT !.pc = "exited", !.exited = TRUE, !.exit_code = code,
              !.summary = summary]

InitMain ==
    /\ runs = [r \in Runs |-> Unconstructed]
    /\ now = 0
    /\ cli = NewClient
    /\ calls = 0
    /\ dispatch = NotificationManager(NOTIFICATION, NoChannels)
    /\ ret = NoCall
    /\ proc = [NoProcess EXCEPT !.pc = "read"]
    /\ render = NoRender

ReadDocument ==
    /\ proc.pc = "read"
    /\ \E input \in Inputs :
         LET p == [proc EXCEPT !.input = input]
         IN  proc' = CASE input = "bad_args" -> exit(p, 2, "usage")
                       [] input = "unreadable_doc" -> exit(p, 1, "logged")
                       [] input = "cancelled_stdin" -> exit(p, 0, "printed")
                       [] OTHER -> [p EXCEPT !.pc = "construct"]
    /\ UNCHANGED <<runs, now, cli, calls, dispatch, ret, render>>

Construct ==
    /\ proc.pc = "construct"
    /\ \E no_mcp \in BOOLEAN, session_ok \in BOOLEAN, job \in BOOLEAN :
         runs' = [r \in Runs |->
                    AutoDeployment(r = "main" /\ ~no_mcp, session_ok, job)]
    /\ proc' = [proc EXCEPT !.pc = "run"]
    /\ UNCHANGED <<now, cli, calls, dispatch, ret, render>>

Exit ==
    /\ proc.pc = "run"
    /\ \A r \in Runs : runs[r].pc = "done"
    /\ proc' = IF runs["main"].result.success
               THEN exit(proc, 0, "printed")
               ELSE exit(proc, 1, "printed")
    /\ UNCHANGED <<runs, now, cli, calls, dispatch, ret, render>>

NextMain ==
    \/ ReadDocument
    \/ Construct
    \/ Next
    \/ Exit

SpecMain == InitMain /\ [][NextMain]_vars

----------------------------------------------------------------------------
(* Message templates: the senders fill the channel's template with         *)
(* string.Template.safe_substitute.                                        *)
(* A template is a sequence of tokens, each a piece of literal text or a   *)
(* placeholder ${key}; the rendered message is the sequence of the strings *)
(* the tokens turn into. *)

TemplateKeys == {"status", "version"}

Literal(text) == [placeholder |-> FALSE, text |-> text]

Placeholder(key) == [placeholder |-> TRUE, text |-> key]

Tokens == {Literal("text")} \cup {Placeholder(key) : key \in TemplateKeys}

Templates == UNION {[1..n -> Tokens] : n \in 0..MaxTemplate}

(* The template data: some of the keys, each with a value that may be the  *)
(* empty string. *)
TemplateData == UNION {[keys -> {"", "value"}] : keys \in SUBSET TemplateKeys}

(* The text of a placeholder as it is written in the template. *)
Written(key) ==
    CASE key = "status" -> "${status}"
      [] key = "version" -> "${version}"

(* Template.safe_substitute: a placeholder whose key the data has becomes  *)
(* the value, one whose key is missing stays as it is written. *)
safe_substitute(template, data) ==
    [i \in DOMAIN template |->
        IF ~template[i].placeholder THEN template[i].text
        ELSE IF template[i].text \in DOMAIN data THEN data[template[i].text]
        ELSE Written(template[i].text)]

InitRender ==
    /\ runs = [r \in Runs |-> AutoDeployment(FALSE, FALSE, FALSE)]
    /\ now = 0
    /\ cli = NewClient
    /\ calls = 0
    /\ dispatch = NotificationManager(NOTIFICATION, NoChannels)
    /\ ret = NoCall
    /\ proc = NoProcess
    /\ \E template \in Templates, data \in TemplateData :
          render = [NoRender EXCEPT !.pc = "template", !.template = template,
                                    !.data = data]

Render ==
    /\ render.pc = "template"
    /\ render' = [render EXCEPT !.pc = "rendered",
                                !.message = safe_substitute(render.template, render.data)]
    /\ UNCHANGED <<runs, now, cli, calls, dispatch, ret, proc>>

NextRender == Render

SpecRender == InitRender /\ [][NextRender]_vars

----------------------------------------------------------------------------
(* Properties.  Observations on a run's record. *)

Main == runs["main"]

Twin == runs["twin"]

Began(s, stage_name) ==
    \E i \in DOMAIN s.events : s.events[i] = Event("begin", stage_name, "running")

Ended(s, stage_name, status) ==
    \E i \in DOMAIN s.events : s.events[i] = Event("end", stage_name, status)

(* stage `first` has ended before stage `second` begins *)
EndedBefore(s, first, second) ==
    \E i, j \in DOMAIN s.events :
        /\ i < j
        /\ s.events[i].op = "end" /\ s.events[i].name = first
        /\ s.events[j] = Event("begin", second, "running")

Requests(c, op) == {i \in DOMAIN c.sent : c.sent[i].op = op}

Returned(s) == s.pc = "done"

(* C1: when analyze_requirements returns a dict with an error field, or    *)
(* the stage raises on its value, Analyze ends failed, run has returned    *)
(* success=false with stage Analyze, and neither SourceChange nor Build    *)
(* has begun. *)
C1_AnalyzeFailureAborts ==
    \A r \in Runs :
        runs[r].analysis \in {"error", "raise"} =>
            /\ Returned(runs[r])
            /\ runs[r].result.success = FALSE
            /\ runs[r].result.stage = ANALYZE
            /\ Ended(runs[r], ANALYZE, "failed")
            /\ ~Began(runs[r], GIT)
            /\ ~Began(runs[r], BUILD)

C1_Witness ==
    /\ Main.analysis = "raise"
    /\ Returned(Main)
    /\ Ended(Main, ANALYZE, "failed")
    /\ mcp_active(Main)

(* C2: with no build job configured, Build is never begun and never        *)
(* entered in the stage map; a run whose Analyze and SourceChange          *)
(* succeeded has begun and ended Notify and returns success=true. *)
C2_NoJobSkipsBuild ==
    \A r \in Runs :
        ~runs[r].jenkins =>
            /\ ~Began(runs[r], BUILD)
            /\ runs[r].stages[BUILD] = Absent
            /\ (Returned(runs[r]) /\ runs[r].analysis = "plan" /\ runs[r].git_failed = "none") =>
                   /\ Began(runs[r], NOTIFY)
                   /\ \E st \in {"success", "warning", "failed"} : Ended(runs[r], NOTIFY, st)
                   /\ EndedBefore(runs[r], GIT, NOTIFY)
                   /\ runs[r].result.success = TRUE

C2_Witness ==
    /\ ~Main.jenkins
    /\ Returned(Main)
    /\ Main.git_failed = "none"
    /\ Began(Main, NOTIFY)
    /\ Main.result.success

(* C3: a triggered build whose queue item resolved to a number and whose   *)
(* polls end in SUCCESS, after any number of in-progress polls, makes      *)
(* Build end success; Notify begins after it and run returns               *)
(* success=true.  SUCCESS is only ever read inside the timeout. *)
C3_BuildSuccess ==
    /\ [](\A r \in Runs :
            runs[r].build_status = "SUCCESS" =>
                /\ runs[r].trigger = "queued"
                /\ runs[r].build_number \in BuildNumbers
                /\ Ended(runs[r], BUILD, "success")
                /\ runs[r].pc \in {"notify", "done"}
                /\ Returned(runs[r]) =>
                       /\ EndedBefore(runs[r], BUILD, NOTIFY)
                       /\ runs[r].result.success = TRUE)
    /\ [][\A r \in Runs :
            (runs[r].pc = "wait" /\ runs'[r].build_status = "SUCCESS") =>
                /\ runs[r].waited < timeout
                /\ runs'[r].pc = "notify"]_vars

C3_Witness ==
    /\ Main.build_status = "SUCCESS"
    /\ Returned(Main)
    /\ Main.result.success
    /\ EndedBefore(Main, BUILD, NOTIFY)

(* C4: when every poll until the timeout finds the build in progress,      *)
(* wait_for_build returns no status; Build ends warning, the run goes on   *)
(* to Notify and returns success=true.  wait_for_build gives up only on    *)
(* the poll after which the timeout has elapsed. *)
C4_BuildTimeout ==
    /\ [](\A r \in Runs :
            (runs[r].build_number # NoBuild /\ runs[r].build_status = None
             /\ runs[r].pc \in {"notify", "done"}) =>
                /\ Ended(runs[r], BUILD, "warning")
                /\ ~Ended(runs[r], BUILD, "failed")
                /\ Returned(runs[r]) =>
                       /\ EndedBefore(runs[r], BUILD, NOTIFY)
                       /\ runs[r].result.success = TRUE)
    /\ [][\A r \in Runs :
            (runs[r].pc = "wait" /\ runs'[r].pc # "wait" /\ runs'[r].build_status = None) =>
                /\ runs[r].waited + check_interval >= timeout
                /\ runs'[r].pc = "notify"]_vars

C4_Witness ==
    /\ Main.build_number # NoBuild
    /\ Main.build_status = None
    /\ Returned(Main)
    /\ Ended(Main, BUILD, "warning")
    /\ Main.result.success

(* C5: a build that ends with a status other than SUCCESS makes Build end  *)
(* failed; the reported excerpt is the last log_tail characters of the     *)
(* log when a log was fetched; run returns success=false with stage Build  *)
(* and Notify is not begun. *)
C5_BuildFailure ==
    \A r \in Runs :
        runs[r].build_status \in BuildResults \ {"SUCCESS"} =>
            /\ Returned(runs[r])
            /\ Ended(runs[r], BUILD, "failed")
            /\ runs[r].result.success = FALSE
            /\ runs[r].result.stage = BUILD
            /\ ~Began(runs[r], NOTIFY)
            /\ (runs[r].build_log.available /\ runs[r].build_log.len > 0) =>
                   /\ runs[r].reported_log.shown
                   /\ runs[r].reported_log.to = runs[r].build_log.len
                   /\ runs[r].reported_log.to - runs[r].reported_log.from <= log_tail
                   /\ \/ runs[r].reported_log.from = 0
                      \/ runs[r].reported_log.to - runs[r].reported_log.from = log_tail
            /\ ~(runs[r].build_log.available /\ runs[r].build_log.len > 0) =>
                   ~runs[r].reported_log.shown

C5_Witness ==
    /\ Main.build_status = "FAILURE"
    /\ Returned(Main)
    /\ Main.build_log.len > log_tail
    /\ Main.reported_log.shown
    /\ Main.reported_log.from > 0

(* C6: every run that returns has begun Notify, the runs that abort at an  *)
(* earlier stage included. *)
C6_NotifyAlwaysBegun ==
    \A r \in Runs : Returned(runs[r]) => Began(runs[r], NOTIFY)

(* C7: the success field of the result is the same whatever the            *)
(* notification did: one run whose notification fails on some channel, on  *)
(* every channel or raises, and a run with the same upstream outcomes      *)
(* whose notification reached every channel, return the same success. *)
C7_SuccessIgnoresNotification ==
    (Returned(Main) /\ Returned(Twin)) =>
        /\ Main.result.success = Twin.result.success
        /\ Main.result.stage = Twin.result.stage
        /\ Main.notified # NotNotified => Main.result.success = TRUE

C7_Witness ==
    /\ Returned(Main) /\ Returned(Twin)
    /\ Main.notified.kind = "raise"
    /\ Twin.notified = AllSent
    /\ Ended(Main, NOTIFY, "failed")
    /\ Main.result.success

C9_CloseIdempotent ==
    Cardinality(Requests(cli, "close_session")) <= 1

(* C10: a run with the monitoring backend and a run without it, given the  *)
(* same collaborator outcomes, go through the same stages in the same      *)
(* order with the same statuses and return the same result, whichever      *)
(* monitoring call fails. *)
C10_MonitoringIsInert ==
    Main.notified = Twin.notified =>
        /\ Main.pc = Twin.pc
        /\ Main.events = Twin.events
        /\ Main.result = Twin.result

C10_Witness ==
    /\ Returned(Main) /\ Returned(Twin)
    /\ Main.notified = Twin.notified
    /\ mcp_active(Main) /\ ~Twin.mcp
    /\ Main.stages[BUILD] = None
    /\ Main.stages[NOTIFY] # None
    /\ Main.build_status = "SUCCESS"

(* C11: start_stage always returns a usable stage id: every stage a run    *)
(* has begun is entered in the stage map with an id that is not None, and  *)
(* the current stage is that id, also when the backend's stage-create      *)
(* call fails. *)
C11_StageIdUsable ==
    \A r \in Runs :
        /\ \A stage_name \in StageNames :
               Began(runs[r], stage_name) => runs[r].stages[stage_name] \notin {None, Absent}
        /\ runs[r].events # <<>> => runs[r].current_stage # None

(* C12: the poll that finds the queue item cancelled ends the resolution   *)
(* at once with no build number: that poll is followed by no sleep and no  *)
(* further poll, so a cancellation seen after a earlier polls has consumed *)
(* a + 1 polls, fewer than max_attempts whenever it is not the last one;   *)
(* on the first poll it has consumed one poll and no sleep. *)
C12_CancelledReturnsAtOnce ==
    /\ [](\A r \in Runs :
            runs[r].queue_result = "cancelled" =>
                /\ Returned(runs[r])
                /\ runs[r].build_number = NoBuild
                /\ runs[r].attempts + 1 <= max_attempts
                /\ runs[r].result.stage = BUILD)
    /\ [][\A r \in Runs :
            (runs[r].pc = "queue" /\ runs'[r].queue_result = "cancelled") =>
                /\ runs'[r].attempts = runs[r].attempts
                /\ runs'[r].pc # "queue"]_vars

C12_Witness ==
    /\ Main.queue_result = "cancelled"
    /\ Main.attempts = 0
    /\ Returned(Main)
    /\ Ended(Main, BUILD, "failed")

(* C13: a queue item that stays without executable reference and without   *)
(* cancelled mark is polled max_attempts times, with a sleep after each    *)
(* poll, and then given up: the resolution neither gives up on an earlier  *)
(* poll nor polls once more. *)
C13_QueueTimeoutAfterMaxAttempts ==
    /\ [](\A r \in Runs :
            /\ runs[r].pc = "queue" => runs[r].attempts < max_attempts
            /\ (runs[r].queue_result = "pending" /\ runs[r].pc # "queue") =>
                   /\ runs[r].attempts = max_attempts
                   /\ runs[r].build_number = NoBuild)
    /\ [][\A r \in Runs :
            (runs[r].pc = "queue" /\ runs'[r].queue_result = "pending") =>
                /\ runs'[r].attempts = runs[r].attempts + 1
                /\ (runs'[r].pc = "queue") <=> (runs'[r].attempts < max_attempts)]_vars

C13_Witness ==
    /\ Main.queue_result = "pending"
    /\ Main.attempts = max_attempts
    /\ Returned(Main)
    /\ Main.build_number = NoBuild

(* C14: no bounded wait that runs out makes run return success=false:      *)
(* not the queue resolution giving up after max_attempts polls, and not    *)
(* wait_for_build giving up at its timeout. *)
C14_TimeoutsNotFatal ==
    \A r \in Runs :
        (Returned(runs[r]) /\ runs[r].trigger = "queued") =>
            /\ (runs[r].queue_result = "pending" /\ runs[r].build_number = NoBuild) =>
                   runs[r].result.success = TRUE
            /\ (runs[r].build_number # NoBuild /\ runs[r].build_status = None) =>
                   runs[r].result.success = TRUE

(* Observations on a call of send_notification. *)

TargetList(d) ==
    IF d.channels.list = <<>>
    THEN SelectSeq(KeyOrder, LAMBDA k : d.config[k] = "dict")
    ELSE d.channels.list

Targeted(d) == {TargetList(d)[i] : i \in DOMAIN TargetList(d)}

(* what the attempt on channel c comes to, by itself *)
OwnOutcome(d, c) ==
    /\ c \in Channels
    /\ d.config[c] = "dict"
    /\ d.sends[c] = "sent"

Successes(n) == Cardinality({c \in DOMAIN n.results : n.results[c]})

(* C16: the status the Notify stage ends with is decided by the outcome    *)
(* map alone: success when every channel of the map is true, warning when  *)
(* some but not all are, failed when none is; and no second status. *)
C16_NotifyBuckets ==
    \A r \in Runs :
        runs[r].notified.kind = "results" =>
            LET k == Successes(runs[r].notified)
                total == Cardinality(DOMAIN runs[r].notified.results)
                bucket == IF k = total THEN "success"
                          ELSE IF k > 0 THEN "warning" ELSE "failed"
            IN  /\ Ended(runs[r], NOTIFY, bucket)
                /\ \A st \in {"success", "warning", "failed"} \ {bucket} :
                       ~Ended(runs[r], NOTIFY, st)
                /\ runs[r].notification_success = (bucket # "failed")

C16_Witness ==
    /\ Main.notified.kind = "results"
    /\ Successes(Main.notified) = 2
    /\ Ended(Main, NOTIFY, "warning")
    /\ Returned(Main)

(* C17: send_notification goes through every targeted channel in order,    *)
(* whatever the channels before it did; every targeted channel that is     *)
(* configured and has a sender gets its send; a channel's entry is false   *)
(* exactly when its own send failed, raised, or the channel is not         *)
(* configured or has no sender; and the call returns. *)
C17_ChannelIsolation ==
    /\ dispatch.pc \in {"idle", "returned"}
    /\ dispatch.pc = "returned" =>
           /\ dispatch.handled = TargetList(dispatch)
           /\ dispatch.sent_to =
                  SelectSeq(TargetList(dispatch),
                            LAMBDA c : c \in Channels /\ dispatch.config[c] # "absent")
           /\ \A c \in Targeted(dispatch) :
                  dispatch.results[c] = FALSE <=> ~OwnOutcome(dispatch, c)

C17_Witness ==
    /\ dispatch.pc = "returned"
    /\ Len(dispatch.handled) = 3
    /\ dispatch.handled[1] = "slack" /\ dispatch.sends["slack"] = "raise"
    /\ dispatch.handled[2] = "sms"
    /\ dispatch.handled[3] = "wecom" /\ dispatch.results["wecom"] = TRUE
    /\ dispatch.results["slack"] = FALSE
    /\ dispatch.results["sms"] = FALSE

Terminal == {"success", "failed", "warning"}

FirstRequest(c, op, stage) ==
    LET at == {i \in DOMAIN c.sent : c.sent[i].op = op /\ c.sent[i].stage = stage}
    IN  IF at = {} THEN 0 ELSE CHOOSE i \in at : \A j \in at : i <= j

(* C19: when an exception reaches run's handler, the handler closes the    *)
(* session with status failed, then attempts the failure notification,     *)
(* and run returns success=false with the text of that exception: the      *)
(* same result whether the notification reaches every channel, fails,      *)
(* returns False or raises. *)
C19_HandlerClosesNotifiesReturns ==
    \A r \in Runs :
        /\ runs[r].handler # None <=> runs[r].result.error = "exception"
        /\ runs[r].handler # None =>
               /\ Returned(runs[r])
               /\ runs[r].result = Result(FALSE, None, "exception")
               /\ runs[r].handler = "notified" =>
                      /\ Began(runs[r], NOTIFY)
                      /\ \E st \in Terminal : Ended(runs[r], NOTIFY, st)
               /\ mcp_active(runs[r]) =>
                      LET closed == FirstRequest(runs[r].client, "close_session", None)
                          notify == FirstRequest(runs[r].client, "add_stage", NOTIFY)
                      IN  /\ closed > 0
                          /\ runs[r].client.sent[closed].status = "failed"
                          /\ runs[r].handler = "notified" => closed < notify

C19_Witness ==
    /\ Main.handler = "notified"
    /\ Main.notified.kind = "raise"
    /\ mcp_active(Main)
    /\ Twin.handler = "notified"
    /\ Twin.notified = AllSent
    /\ Main.result = Twin.result
    /\ Main.result.error = "exception"

(* C20: when the analysis result supplies no BRANCH parameter, the BRANCH   *)
(* value the Build stage hands to build_job is the name of the branch the  *)
(* SourceChange stage created and pushed in the same run, however far the  *)
(* clock has moved between the two stages. *)
C20_BranchThreaded ==
    \A r \in Runs :
        (runs[r].trigger # None /\ runs[r].plan.jenkins_params # "branch") =>
            /\ runs[r].pushed # NoBranch
            /\ runs[r].build_branch = runs[r].pushed

(* C21: the command line exits with code 0 exactly when run returned       *)
(* success=true and with code 1 on every failure (a failed run, an         *)
(* unreadable requirement document, cancelled input), after a one-line     *)
(* summary. *)
C21_ExitCodeReflectsOutcome ==
    proc.exited =>
        /\ proc.exit_code = 0 <=> (proc.input \in {"doc", "stdin"}
                                   /\ Returned(Main) /\ Main.result.success)
        /\ proc.input \in {"unreadable_doc", "cancelled_stdin"}
             => proc.exit_code = 1
        /\ proc.input \in {"doc", "stdin"} /\ ~Main.result.success
             => proc.exit_code = 1
        /\ proc.summary # "none"

(* C22: with no session open, update_status, add_stage, update_stage,      *)
(* add_log and close_session send no request, leave the client unchanged   *)
(* and return a success-shaped default (True, or an identifier). *)
C22_NoSessionNoOp ==
    [][(calls' = calls + 1 /\ cli.session_id = None
        /\ ret'.op # "create_session")
         => /\ cli' = cli
            /\ ret'.value \in {"True", "id"}]_vars

(* the place of a stage in the order in which run calls the stages *)
Position(stage_name) ==
    CASE stage_name = ANALYZE -> 1
      [] stage_name = GIT -> 2
      [] stage_name = BUILD -> 3
      [] stage_name = NOTIFY -> 4

(* the stages begun and not ended after the first n events *)
OpenAfter(ev, n) ==
    {name \in StageNames :
        /\ \E i \in 1..n : ev[i].op = "begin" /\ ev[i].name = name
        /\ ~\E i \in 1..n : ev[i].op = "end" /\ ev[i].name = name}

(* C23: the stages execute strictly in sequence: at every point at most    *)
(* one stage is begun and not ended, stages begin in the order Analyze,    *)
(* SourceChange, Build, Notify, SourceChange begins only after Analyze     *)
(* ended with success and Build only after SourceChange ended with         *)
(* success. *)
C23_StagesInSequence ==
    \A r \in Runs :
        LET ev == runs[r].events
        IN  /\ \A n \in 0..Len(ev) : Cardinality(OpenAfter(ev, n)) <= 1
            /\ \A i, j \in DOMAIN ev :
                   (i < j /\ ev[i].op = "begin" /\ ev[j].op = "begin")
                       => Position(ev[i].name) < Position(ev[j].name)
            /\ \A j \in DOMAIN ev :
                   ev[j] = Event("begin", GIT, "running")
                       => \E i \in 1..(j - 1) : ev[i] = Event("end", ANALYZE, "success")
            /\ \A j \in DOMAIN ev :
                   ev[j] = Event("begin", BUILD, "running")
                       => \E i \in 1..(j - 1) : ev[i] = Event("end", GIT, "success")

C23_Witness ==
    /\ Returned(Main)
    /\ Main.events = <<Event("begin", ANALYZE, "running"), Event("end", ANALYZE, "success"),
                       Event("begin", GIT, "running"), Event("end", GIT, "success"),
                       Event("begin", BUILD, "running"), Event("end", BUILD, "success"),
                       Event("begin", NOTIFY, "running"), Event("end", NOTIFY, "success")>>
    /\ \E r \in Runs : Cardinality(OpenAfter(runs[r].events, Len(runs[r].events))) = 0

(* the events of a run with the given op, by position *)
EventsOf(s, op) == {i \in DOMAIN s.events : s.events[i].op = op}

(* C24: with a session open, each stage begun has produced one             *)
(* stage-create request and each stage ended has produced exactly one      *)
(* stage-update request, carrying its terminal status; a stage is ended    *)
(* before the next one begins and before run returns.  This on every       *)
(* outcome, a failed stage-create call included. *)
C24_EveryStageReported ==
    \A r \in Runs :
        mcp_active(runs[r]) =>
            LET ev == runs[r].events
                sent == runs[r].client.sent
            IN  /\ \A name \in StageNames :
                       Began(runs[r], name) =>
                           Cardinality({k \in DOMAIN sent :
                               sent[k].op = "add_stage" /\ sent[k].stage = name}) = 1
                /\ Cardinality(Requests(runs[r].client, "update_stage"))
                       = Cardinality(EventsOf(runs[r], "end"))
                /\ \A i \in EventsOf(runs[r], "end") :
                       \E k \in Requests(runs[r].client, "update_stage") :
                           sent[k].status = ev[i].status
                /\ Returned(runs[r]) => OpenAfter(ev, Len(ev)) = {}

(* C25: a run constructed with monitoring disabled sends no request at all *)
(* to the monitoring backend, neither through a client of its own nor      *)
(* through the helper the Build stage calls. *)
C25_DisabledMonitoringSilent ==
    \A r \in Runs :
        ~runs[r].mcp =>
            /\ runs[r].client.sent = <<>>
            /\ runs[r].helper.sent = <<>>

(* C26: SourceChange attempts clone, create_branch, apply_file_changes,    *)
(* commit, push in that order, each only when every earlier one succeeded: *)
(* what was attempted is a prefix of that order ending at the first        *)
(* sub-step that failed; after a failure the stage has ended failed, run   *)
(* has returned success=false with stage SourceChange, nothing was pushed  *)
(* and Build has not begun. *)
C26_GitStopsAtFirstFailure ==
    \A r \in Runs :
        LET s == runs[r]
            steps == git_steps(s.plan)
            n == Len(s.git_done)
        IN  /\ n <= Len(steps) /\ s.git_done = SubSeq(steps, 1, n)
            /\ Ended(s, GIT, "success") => (s.git_done = steps /\ s.git_failed = "none")
            /\ s.git_failed \notin {None, "none"} =>
                   /\ n > 0 /\ s.git_done[n] = s.git_failed
                   /\ \A i \in 1..(n - 1) : s.git_done[i] # s.git_failed
                   /\ Ended(s, GIT, "failed")
                   /\ Returned(s)
                   /\ s.result = Result(FALSE, GIT, "git failed")
                   /\ s.pushed = NoBranch
                   /\ ~Began(s, BUILD)

C26_Witness ==
    /\ Main.plan.file_changes
    /\ Main.git_failed = "apply_file_changes"
    /\ Main.git_done = <<"clone", "create_branch", "apply_file_changes">>
    /\ Returned(Main)
    /\ Main.jenkins

(* the build info of the last poll of wait_for_build shows the building    *)
(* flag cleared *)
FlagCleared(s) == s.build_info.found /\ ~s.build_info.building

(* C27, as stated: wait_for_build treats a build as finished at the first  *)
(* poll whose build info has building=false: it returns that info's result *)
(* field verbatim and polls no further. *)
C27_ClearedFlagIsTerminal ==
    \A r \in Runs :
        FlagCleared(runs[r]) =>
            /\ runs[r].pc # "wait"
            /\ runs[r].build_status = runs[r].build_info.result

(* C27, amended: wait_for_build treats a build as finished at the first    *)
(* poll whose build info has building=false and a result that is not       *)
(* empty: it returns that result verbatim and polls no further.  A poll    *)
(* with building=false and no result leaves the loop running. *)
C27_ClearedFlagWithResultIsTerminal ==
    \A r \in Runs :
        /\ (FlagCleared(runs[r]) /\ runs[r].build_info.result # None) =>
               /\ runs[r].pc # "wait"
               /\ runs[r].build_status = runs[r].build_info.result
               /\ runs[r].build_status \in BuildResults
        /\ runs[r].pc = "wait" /\ runs[r].build_info # NoInfo =>
               get_build_status(runs[r].build_info) \in {None, "IN_PROGRESS"}

C27_Witness ==
    /\ FlagCleared(Main)
    /\ Main.build_info.result = "ABORTED"
    /\ Main.build_status = "ABORTED"
    /\ Main.pc = "done"

(* C28: when the trigger request is answered with a status other than      *)
(* 200/201, or with no Location header, build_job gives up without polling *)
(* the queue: Build ends failed and run returns success=false with stage   *)
(* Build. *)
C28_TriggerFailsFast ==
    \A r \in Runs :
        runs[r].trigger \in {"rejected", "no_location"} =>
            /\ runs[r].queue_result = None
            /\ runs[r].attempts = 0
            /\ runs[r].build_number = NoBuild
            /\ runs[r].build_info = NoInfo
            /\ Ended(runs[r], BUILD, "failed")
            /\ Returned(runs[r])
            /\ runs[r].result = Result(FALSE, BUILD, "build failed")
            /\ ~Began(runs[r], NOTIFY)

C28_Witness ==
    /\ Main.trigger = "no_location"
    /\ Returned(Main)
    /\ Ended(Main, BUILD, "failed")
    /\ Main.queue_result = None

(* C29: every run terminates, given that each external call returns and    *)
(* the clock advances during sleeps (each step of run that can be taken is *)
(* taken).  The queue loop is never entered with max_attempts polls made,  *)
(* and the build-completion loop is never entered once the time waited has *)
(* reached the timeout. *)
C29_RunTerminates ==
    /\ [](\A r \in Runs :
            /\ runs[r].pc = "queue" => runs[r].attempts < max_attempts
            /\ runs[r].pc = "wait" => runs[r].waited < timeout
            /\ runs[r].attempts <= max_attempts
            /\ runs[r].waited <= timeout)
    /\ <>(\A r \in Runs : Returned(runs[r]))

C29_Witness ==
    /\ Returned(Main)
    /\ Main.build_status = None
    /\ Main.build_number \in BuildNumbers
    /\ Ended(Main, BUILD, "warning")

(* C30: no exception crosses a stage boundary.  Whatever a collaborator    *)
(* does (the analyzer, a source-control sub-step, the build trigger, a     *)
(* queue poll or the notification raising included), the stage method      *)
(* ends its stage and returns a value to run: no exception leaves a stage  *)
(* and run's handler is never entered. *)
C30_NoExceptionLeavesStage ==
    \A r \in Runs :
        LET s == runs[r]
        IN  /\ ~s.escaped
            /\ s.pc # "except"
            /\ s.handler = None
            /\ s.result.error # "exception"
            /\ s.analysis = "raise" =>
                   Ended(s, ANALYZE, "failed") /\ s.result.stage = ANALYZE
            /\ s.git_raised =>
                   Ended(s, GIT, "failed") /\ s.result.stage = GIT
            /\ (s.trigger = "raise" \/ s.queue_result = "raise") =>
                   Ended(s, BUILD, "failed") /\ s.result.stage = BUILD
            /\ s.notified.kind = "raise" =>
                   /\ Ended(s, NOTIFY, "failed")
                   /\ ~s.notification_success
                   /\ Returned(s)

C30_Witness ==
    /\ Returned(Main)
    /\ Main.notified.kind = "raise"
    /\ Ended(Main, NOTIFY, "failed")
    /\ Main.handler = None
    /\ \E r \in Runs : runs[r].result.success

(* C31: rendering is tolerant: it does not fail when the data lacks a key  *)
(* the template refers to, and the placeholder of a missing key is         *)
(* replaced by the empty string in the rendered message. *)
C31_MissingKeyRendersEmpty ==
    render.pc = "rendered" =>
        /\ ~render.raised
        /\ Len(render.message) = Len(render.template)
        /\ \A i \in DOMAIN render.template :
               (render.template[i].placeholder
                /\ render.template[i].text \notin DOMAIN render.data)
                   => render.message[i] = ""

(* C32: whenever run has returned a result that names a failing stage,     *)
(* that stage was ended with status failed; and once Analyze has ended     *)
(* with success (whatever the analyzer gave, an empty plan included) the   *)
(* run goes on: it is about to begin SourceChange or has begun it. *)
C32_NamedStageEndedFailed ==
    \A r \in Runs :
        /\ (Returned(runs[r]) /\ runs[r].result.stage \in StageNames) =>
               Ended(runs[r], runs[r].result.stage, "failed")
        /\ Ended(runs[r], ANALYZE, "success") =>
               (runs[r].pc = "git" \/ Began(runs[r], GIT))

(* C33: when run has returned, every monitoring session opened for it has  *)
(* been closed: the orchestrator's own session, and the session the        *)
(* build-start helper opened in the Build stage. *)
C33_EverySessionClosed ==
    \A r \in Runs :
        Returned(runs[r]) =>
            /\ runs[r].client.session_id # None
                   => Requests(runs[r].client, "close_session") # {}
            /\ runs[r].helper.session_id # None
                   => Requests(runs[r].helper, "close_session") # {}

(* C34: after the close request for its session has been issued a run      *)
(* sends no stage-create, stage-update, log or status request, on the      *)
(* normal path and on the path through run's exception handler alike. *)
C34_NothingAfterClose ==
    \A r \in Runs :
        LET sent == runs[r].client.sent
        IN  \A i \in Requests(runs[r].client, "close_session") :
                \A j \in DOMAIN sent :
                    j > i => sent[j].op \notin {"add_stage", "update_stage",
                                                "add_log", "update_status"}

Begins(s, stage_name) ==
    Cardinality({i \in DOMAIN s.events :
                    s.events[i] = Event("begin", stage_name, "running")})

EmptyStatus(info) == get_build_status(info) = None

(* C37: wait_for_build never takes a failed or empty status lookup for a   *)
(* final value.  A poll whose lookup fails or whose build has no result    *)
(* yet is followed by a sleep and another poll, like a poll of a build in  *)
(* progress, unless the time is up; wait_for_build returns None only when  *)
(* the time is up, and otherwise a result that is not empty and not        *)
(* IN_PROGRESS. *)
C37_EmptyStatusKeepsWaiting ==
    /\ [](\A r \in Runs : runs[r].build_status \in BuildResults \cup {None})
    /\ [][\A r \in Runs :
            (runs[r].pc = "wait" /\ runs'[r] # runs[r]) =>
                LET info == runs'[r].build_info
                    in_time == runs[r].waited + check_interval < timeout
                IN  /\ (EmptyStatus(info) \/ info.building) /\ in_time =>
                           /\ runs'[r].pc = "wait"
                           /\ runs'[r].waited = runs[r].waited + check_interval
                    /\ runs'[r].pc # "wait" =>
                           IF EmptyStatus(info) \/ info.building
                           THEN ~in_time /\ runs'[r].build_status = None
                           ELSE runs'[r].build_status = info.result
                                /\ info.result \in BuildResults]_vars

C37_Witness ==
    /\ Main.pc = "wait"
    /\ Main.build_info.found
    /\ ~Main.build_info.building
    /\ Main.build_info.result = None
    /\ Main.waited = 3 * check_interval

(* C38: when the dispatch attempted no channel (the outcome map is empty)  *)
(* the Notify stage ends with status success, with no other status, and    *)
(* returns True to run. *)
C38_EmptyMapIsSuccess ==
    \A r \in Runs :
        runs[r].notified = NoneAttempted =>
            /\ Ended(runs[r], NOTIFY, "success")
            /\ ~Ended(runs[r], NOTIFY, "failed")
            /\ ~Ended(runs[r], NOTIFY, "warning")
            /\ runs[r].notification_success
            /\ Returned(runs[r])

C38_Witness ==
    /\ Main.notified = NoneAttempted
    /\ Ended(Main, NOTIFY, "success")
    /\ Main.notification_success
    /\ Main.handler = None

(* C39: the stage-update request that ends a stage with a terminal status  *)
(* (success, failed or warning) carries an end timestamp. *)
C39_TerminalUpdateHasEndTime ==
    \A r \in Runs :
        \A k \in Requests(runs[r].client, "update_stage") :
            runs[r].client.sent[k].status \in Terminal
                => runs[r].client.sent[k].end_time

(* C40: the Build stage leaves the analysis result as the analyzer made    *)
(* it: the plan a successful run returns is the analyzer's plan, and its   *)
(* build parameters have no BRANCH entry that the analyzer did not supply. *)
C40_PlanUnchanged ==
    \A r \in Runs :
        /\ runs[r].plan = runs[r].analyzed_plan
        /\ (Returned(runs[r]) /\ runs[r].result.success
            /\ runs[r].analyzed_plan.jenkins_params = "plain")
               => runs[r].plan.jenkins_params = "plain"

====
